---- MODULE Spec2Model ----
(***************************************************************************)
(* The chat server of chatbot-langgraph and the LangGraph workflow it      *)
(* invokes: the in-memory conversation map of server.ts, the handlers of   *)
(* POST /api/chat, GET and DELETE /api/conversation/:sessionId, and the    *)
(* nodes, reducers and routers of chatbot.ts.  Every POST is one turn; a   *)
(* turn is split at the await points of the code.                          *)
(***************************************************************************)
EXTENDS Integers, Sequences, FiniteSets, TLC

\* ---------------------------------------------------------------- bounds
MaxTurns == 2        \* POST /api/chat requests issued in one run
MaxInFlight == 2     \* requests whose chatbot.invoke is pending at once
MaxToolCalls == 2    \* tool calls the model issues in one run (id budget)
MaxCalls == 2        \* tool calls carried by one assistant message

Turns == 1..MaxTurns
Sessions == {"s1", "s2"}
Objs == 1..MaxTurns  \* Conversation objects ever allocated (one per POST at most)
NoObj == 0

\* ------------------------------------------------------- inputs (bounded)
\* request bodies: message texts the client sends
UserTexts == {"hello", "bye", "what is 25 times 4"}
\* the empty message and a message of one space
BlankTexts == {"", " "}
\* what the intent model may answer: the category names its text contains
Categories == {"greeting", "farewell", "question"}
IntentAnswers == SUBSET Categories
\* what the ambiguity judge may answer; "throw" is a failed call
JudgeAnswers == {"CLEAR", "AMBIGUOUS: Paris, France; Paris, Texas", "ambiguous", "throw"}
\* tool calls the question model may propose: name and argument
CallShapes ==
  { [name |-> "calculator", arg |-> "25*4"],
    [name |-> "get_weather", arg |-> "Paris"],
    [name |-> "get_weather", arg |-> "Paris, France"],
    [name |-> "translate", arg |-> "x"] }
\* how one tool invocation settles
Outcomes == {"ok", "throw"}

\* ------------------------------------------------------------- messages
HumanMessage(text) ==
  [kind |-> "human", content |-> <<text>>, tool_calls |-> <<>>, tool_call_id |-> 0]
AIMessage(content, calls) ==
  [kind |-> "ai", content |-> content, tool_calls |-> calls, tool_call_id |-> 0]
ToolMessage(content, id) ==
  [kind |-> "tool", content |-> content, tool_calls |-> <<>>, tool_call_id |-> id]

GreetingText ==
  <<"Hello! I'm a chatbot built with LangGraph. I can help answer your questions. What would you like to know?">>
FarewellText ==
  <<"Goodbye! It was nice chatting with you. Feel free to come back anytime!">>

\* the tools array of tools.ts
tools == {"calculator", "get_weather", "web_search"}

IsPrefix(a, b) == Len(a) <= Len(b) /\ SubSeq(b, 1, Len(a)) = a
Last(s) == s[Len(s)]
SeqsUpTo(S, n) == UNION { [1..k -> S] : k \in 0..n }

\* ----------------------------------------------------- ChatStateAnnotation
\* channel defaults
DefaultState ==
  [messages |-> <<>>, userIntent |-> "unknown", conversationCount |-> 0,
   needsApproval |-> FALSE, pendingToolCalls |-> <<>>, approvalMessage |-> <<>>]

\* fault: the messages reducer replaces the log instead of concatenating
Reduce_Overwrite(s, d) ==
  [messages |-> IF "messages" \in DOMAIN d THEN d.messages ELSE s.messages,
   userIntent |-> IF "userIntent" \in DOMAIN d THEN d.userIntent ELSE s.userIntent,
   conversationCount |-> IF "conversationCount" \in DOMAIN d
                           THEN d.conversationCount ELSE s.conversationCount,
   needsApproval |-> IF "needsApproval" \in DOMAIN d THEN d.needsApproval ELSE s.needsApproval,
   pendingToolCalls |-> IF "pendingToolCalls" \in DOMAIN d
                          THEN d.pendingToolCalls ELSE s.pendingToolCalls,
   approvalMessage |-> IF "approvalMessage" \in DOMAIN d
                         THEN d.approvalMessage ELSE s.approvalMessage]

\* fault: the userIntent reducer takes y as it is, so a delta without
\* userIntent resets the channel
Reduce_ResetIntent(s, d) ==
  [messages |-> IF "messages" \in DOMAIN d THEN s.messages \o d.messages ELSE s.messages,
   userIntent |-> IF "userIntent" \in DOMAIN d THEN d.userIntent ELSE "unknown",
   conversationCount |-> IF "conversationCount" \in DOMAIN d
                           THEN d.conversationCount ELSE s.conversationCount,
   needsApproval |-> IF "needsApproval" \in DOMAIN d THEN d.needsApproval ELSE s.needsApproval,
   pendingToolCalls |-> IF "pendingToolCalls" \in DOMAIN d
                          THEN d.pendingToolCalls ELSE s.pendingToolCalls,
   approvalMessage |-> IF "approvalMessage" \in DOMAIN d
                         THEN d.approvalMessage ELSE s.approvalMessage]

\* reducers: messages concatenates, every other channel is y ?? x
Reduce(s, d) ==
  [messages |-> IF "messages" \in DOMAIN d THEN s.messages \o d.messages ELSE s.messages,
   userIntent |-> IF "userIntent" \in DOMAIN d THEN d.userIntent ELSE s.userIntent,
   conversationCount |-> IF "conversationCount" \in DOMAIN d
                           THEN d.conversationCount ELSE s.conversationCount,
   needsApproval |-> IF "needsApproval" \in DOMAIN d THEN d.needsApproval ELSE s.needsApproval,
   pendingToolCalls |-> IF "pendingToolCalls" \in DOMAIN d
                          THEN d.pendingToolCalls ELSE s.pendingToolCalls,
   approvalMessage |-> IF "approvalMessage" \in DOMAIN d
                         THEN d.approvalMessage ELSE s.approvalMessage]

\* ------------------------------------------------------------ variables
VARIABLES
  conversations,  \* server.ts: Map sessionId -> Conversation object (NoObj: no entry)
  heap,           \* the Conversation objects: messages and conversationCount
  nObj,           \* Conversation objects allocated so far
  started,        \* POST /api/chat requests received so far; turn ids are 1..started
  pc,             \* where each request is: a graph node, or a point of the handler
  sess,           \* sessionId of each request
  conv,           \* the Conversation object each request holds (local `conversation`)
  text,           \* message of each request
  st,             \* graph state of each request's chatbot.invoke
  pend,           \* callTools: settlement of each tool promise of the current step
  resp,           \* body sent by res.json / res.status(500).json
  nextId,         \* next tool-call id the model hands out
  pre,            \* messages and count of the conversation when the request arrived
  overlap,        \* another request of the same session was in progress meanwhile
  rounds,         \* callTools passes completed in each turn
  lastRead,       \* body sent by the GET handler in the last step
  lastDelete,     \* sessionId of the DELETE handled in the last step
  done,           \* callTools: the calls of the current step in the order they settled
  orphaned        \* requests that were in progress when their session was deleted

vars == <<conversations, heap, nObj, started, pc, sess, conv, text, st, pend,
          resp, nextId, pre, overlap, rounds, lastRead, lastDelete, done,
          orphaned>>

NoRead == [sessionId |-> "none", messages |-> <<>>, conversationCount |-> 0]
NoResp == [status |-> 0]
EmptyConversation == [messages |-> <<>>, conversationCount |-> 0]

Init ==
  /\ conversations = [s \in Sessions |-> NoObj]
  /\ heap = [o \in Objs |-> EmptyConversation]
  /\ nObj = 0
  /\ started = 0
  /\ pc = [t \in Turns |-> "new"]
  /\ sess = [t \in Turns |-> "none"]
  /\ conv = [t \in Turns |-> NoObj]
  /\ text = [t \in Turns |-> ""]
  /\ st = [t \in Turns |-> DefaultState]
  /\ pend = [t \in Turns |-> <<>>]
  /\ resp = [t \in Turns |-> NoResp]
  /\ nextId = 1
  /\ pre = [t \in Turns |-> EmptyConversation]
  /\ overlap = [t \in Turns |-> FALSE]
  /\ rounds = [t \in Turns |-> 0]
  /\ lastRead = NoRead
  /\ lastDelete = "none"
  /\ done = [t \in Turns |-> <<>>]
  /\ orphaned = {}

\* the request has been received and its response has not been sent
InProgress(t) == pc[t] \notin {"new", "sent", "error", "rejected"}

\* Exploration bounds.  Session ids are opaque: the first request names "s1".
\* The graph state is local to a request, so the tool loop is explored in
\* runs of one conversation whose turns follow one another: the model may
\* issue tool calls while only one conversation was ever created and every
\* other request in progress has left the graph and waits at END for its
\* handler to go on, and from then on the run goes on with sequential turns
\* of that conversation alone.  Other overlaps of requests, reads and deletes
\* are explored in the runs without tool calls.
SessionAllowed(s) == s = "s1" \/ started > 0
ToolRun == nextId > 1
Alone(t) == \A u \in Turns : InProgress(u) => (u = t \/ pc[u] = "END")
Quiet == \A u \in Turns : ~InProgress(u)

\* fault: the invoke resumes from the turn state the previous turn of the
\* conversation ended with
PostChat_Resume(s, msg) ==
  /\ msg # ""
  /\ started < MaxTurns
  /\ Cardinality({t \in Turns : InProgress(t)}) < MaxInFlight
  /\ SessionAllowed(s)
  /\ ToolRun => Quiet /\ conversations[s] # NoObj
  /\ LET t == started + 1
         fresh == conversations[s] = NoObj
         o == IF fresh THEN nObj + 1 ELSE conversations[s]
         before == IF fresh THEN EmptyConversation ELSE heap[o]
         pushed == Append(before.messages, HumanMessage(msg))
         others == {u \in Turns : InProgress(u) /\ sess[u] = s}
     IN /\ started' = t
        /\ nObj' = IF fresh THEN o ELSE nObj
        /\ conversations' = [conversations EXCEPT ![s] = o]
        /\ heap' = [heap EXCEPT ![o] = [before EXCEPT !.messages = pushed]]
        /\ sess' = [sess EXCEPT ![t] = s]
        /\ conv' = [conv EXCEPT ![t] = o]
        /\ text' = [text EXCEPT ![t] = msg]
        /\ pre' = [pre EXCEPT ![t] = before]
        /\ st' = [st EXCEPT ![t] =
                    Reduce(IF t > 1 /\ conv[t - 1] = o
                             THEN [st[t - 1] EXCEPT !.messages = <<>>]
                             ELSE DefaultState,
                           [messages |-> pushed, userIntent |-> "unknown",
                            conversationCount |-> before.conversationCount])]
        /\ pc' = [pc EXCEPT ![t] = "analyzeIntent"]
        /\ overlap' = [u \in Turns |->
                         IF u \in others THEN TRUE
                         ELSE IF u = t THEN others # {} ELSE overlap[u]]
  /\ lastRead' = NoRead
  /\ lastDelete' = "none"
  /\ orphaned' = orphaned
  /\ done' = done
  /\ UNCHANGED <<pend, resp, nextId, rounds>>

\* fault: the invoke is called on the stored log without the new message
PostChat_NoPush(s, msg) ==
  /\ msg # ""
  /\ started < MaxTurns
  /\ Cardinality({t \in Turns : InProgress(t)}) < MaxInFlight
  /\ SessionAllowed(s)
  /\ ToolRun => Quiet /\ conversations[s] # NoObj
  /\ LET t == started + 1
         fresh == conversations[s] = NoObj
         o == IF fresh THEN nObj + 1 ELSE conversations[s]
         before == IF fresh THEN EmptyConversation ELSE heap[o]
         pushed == Append(before.messages, HumanMessage(msg))
         others == {u \in Turns : InProgress(u) /\ sess[u] = s}
     IN /\ started' = t
        /\ nObj' = IF fresh THEN o ELSE nObj
        /\ conversations' = [conversations EXCEPT ![s] = o]
        /\ heap' = [heap EXCEPT ![o] = before]
        /\ sess' = [sess EXCEPT ![t] = s]
        /\ conv' = [conv EXCEPT ![t] = o]
        /\ text' = [text EXCEPT ![t] = msg]
        /\ pre' = [pre EXCEPT ![t] = before]
        /\ st' = [st EXCEPT ![t] =
                    Reduce(DefaultState,
                           [messages |-> before.messages, userIntent |-> "unknown",
                            conversationCount |-> before.conversationCount])]
        /\ pc' = [pc EXCEPT ![t] = "analyzeIntent"]
        /\ overlap' = [u \in Turns |->
                         IF u \in others THEN TRUE
                         ELSE IF u = t THEN others # {} ELSE overlap[u]]
  /\ lastRead' = NoRead
  /\ lastDelete' = "none"
  /\ orphaned' = orphaned
  /\ done' = done
  /\ UNCHANGED <<pend, resp, nextId, rounds>>

\* ------------------------------------------------------ POST /api/chat (1)
\* server.ts 37-61: get or create the conversation, push the user message,
\* call chatbot.invoke (the input is merged into fresh channels)
PostChat(s, msg) ==
  /\ msg # ""
  /\ started < MaxTurns
  /\ Cardinality({t \in Turns : InProgress(t)}) < MaxInFlight
  /\ SessionAllowed(s)
  /\ ToolRun => Quiet /\ conversations[s] # NoObj
  /\ LET t == started + 1
         fresh == conversations[s] = NoObj
         o == IF fresh THEN nObj + 1 ELSE conversations[s]
         before == IF fresh THEN EmptyConversation ELSE heap[o]
         pushed == Append(before.messages, HumanMessage(msg))
         others == {u \in Turns : InProgress(u) /\ sess[u] = s}
     IN /\ started' = t
        /\ nObj' = IF fresh THEN o ELSE nObj
        /\ conversations' = [conversations EXCEPT ![s] = o]
        /\ heap' = [heap EXCEPT ![o] = [before EXCEPT !.messages = pushed]]
        /\ sess' = [sess EXCEPT ![t] = s]
        /\ conv' = [conv EXCEPT ![t] = o]
        /\ text' = [text EXCEPT ![t] = msg]
        /\ pre' = [pre EXCEPT ![t] = before]
        /\ st' = [st EXCEPT ![t] =
                    Reduce(DefaultState,
                           [messages |-> pushed, userIntent |-> "unknown",
                            conversationCount |-> before.conversationCount])]
        /\ pc' = [pc EXCEPT ![t] = "analyzeIntent"]
        /\ overlap' = [u \in Turns |->
                         IF u \in others THEN TRUE
                         ELSE IF u = t THEN others # {} ELSE overlap[u]]
  /\ lastRead' = NoRead
  /\ lastDelete' = "none"
  /\ orphaned' = orphaned
  /\ done' = done
  /\ UNCHANGED <<pend, resp, nextId, rounds>>

\* server.ts 39-41: `if (!message)` answers 400 before anything is stored
PostChatInvalid(s, msg) ==
  /\ msg = ""
  /\ started < MaxTurns
  /\ SessionAllowed(s)
  /\ LET t == started + 1
     IN /\ started' = t
        /\ sess' = [sess EXCEPT ![t] = s]
        /\ text' = [text EXCEPT ![t] = msg]
        /\ resp' = [resp EXCEPT ![t] = [status |-> 400, error |-> "Message is required"]]
        /\ pc' = [pc EXCEPT ![t] = "rejected"]
  /\ lastRead' = NoRead
  /\ lastDelete' = "none"
  /\ orphaned' = orphaned
  /\ done' = done
  /\ UNCHANGED <<conversations, heap, nObj, conv, st, pend, nextId, pre, overlap, rounds>>

\* ------------------------------------------------------------ graph nodes
\* one node's returned delta is merged by the reducers, then the edge is taken
Step(t, delta, next) ==
  /\ st' = [st EXCEPT ![t] = Reduce(st[t], delta)]
  /\ pc' = [pc EXCEPT ![t] = next]

\* fault: the farewell case falls through to the default
routeByIntent_NoFarewell(intent) ==
  CASE intent = "greeting" -> "greeting"
    [] OTHER -> "question"

\* chatbot.ts routeByIntent
routeByIntent(intent) ==
  CASE intent = "greeting" -> "greeting"
    [] intent = "farewell" -> "farewell"
    [] intent = "question" -> "question"
    [] OTHER -> "question"

\* fault: an answer naming no category leaves the initial "unknown"
DetectedIntent_KeepUnknown(answer) ==
  IF "greeting" \in answer THEN "greeting"
  ELSE IF "farewell" \in answer THEN "farewell"
  ELSE IF "question" \in answer THEN "question"
  ELSE "unknown"

\* analyzeIntent, try branch: first category name the answer includes
DetectedIntent(answer) ==
  IF "greeting" \in answer THEN "greeting"
  ELSE IF "farewell" \in answer THEN "farewell"
  ELSE IF "question" \in answer THEN "question"
  ELSE "question"

\* analyzeIntent, catch branch: /\b(hi|hello|hey|greetings)\b/ then
\* /\b(bye|goodbye|see you|farewell)\b/ on the lower-cased input
FallbackIntent(userInput) ==
  IF userInput \in {"hello"} THEN "greeting"
  ELSE IF userInput \in {"bye"} THEN "farewell"
  ELSE "question"

\* fault: no catch around intentModel.invoke; the node rejects
analyzeIntent_NoCatch(t, answer, fails) ==
  /\ pc[t] = "analyzeIntent"
  /\ IF fails
       THEN pc' = [pc EXCEPT ![t] = "thrown"] /\ st' = st
       ELSE Step(t, [userIntent |-> DetectedIntent(answer)],
                 routeByIntent(DetectedIntent(answer)))
  /\ lastRead' = NoRead
  /\ lastDelete' = "none"
  /\ orphaned' = orphaned
  /\ done' = done
  /\ UNCHANGED <<conversations, heap, nObj, started, sess, conv, text, pend,
                 resp, nextId, pre, overlap, rounds>>

analyzeIntent(t, answer, fails) ==
  /\ pc[t] = "analyzeIntent"
  /\ LET lastMessage == Last(st[t].messages)
         userInput == lastMessage.content[1]
         intent == IF fails THEN FallbackIntent(userInput) ELSE DetectedIntent(answer)
     IN Step(t, [userIntent |-> intent], routeByIntent(intent))
  /\ lastRead' = NoRead
  /\ lastDelete' = "none"
  /\ orphaned' = orphaned
  /\ done' = done
  /\ UNCHANGED <<conversations, heap, nObj, started, sess, conv, text, pend,
                 resp, nextId, pre, overlap, rounds>>

handleGreeting(t) ==
  /\ pc[t] = "greeting"
  /\ Step(t, [messages |-> <<AIMessage(GreetingText, <<>>)>>,
              conversationCount |-> st[t].conversationCount + 1], "END")
  /\ lastRead' = NoRead
  /\ lastDelete' = "none"
  /\ orphaned' = orphaned
  /\ done' = done
  /\ UNCHANGED <<conversations, heap, nObj, started, sess, conv, text, pend,
                 resp, nextId, pre, overlap, rounds>>

\* fault: the farewell node leaves conversationCount alone
handleFarewell_NoCount(t) ==
  /\ pc[t] = "farewell"
  /\ Step(t, [messages |-> <<AIMessage(FarewellText, <<>>)>>], "END")
  /\ lastRead' = NoRead
  /\ lastDelete' = "none"
  /\ orphaned' = orphaned
  /\ done' = done
  /\ UNCHANGED <<conversations, heap, nObj, started, sess, conv, text, pend,
                 resp, nextId, pre, overlap, rounds>>

handleFarewell(t) ==
  /\ pc[t] = "farewell"
  /\ Step(t, [messages |-> <<AIMessage(FarewellText, <<>>)>>,
              conversationCount |-> st[t].conversationCount + 1], "END")
  /\ lastRead' = NoRead
  /\ lastDelete' = "none"
  /\ orphaned' = orphaned
  /\ done' = done
  /\ UNCHANGED <<conversations, heap, nObj, started, sess, conv, text, pend,
                 resp, nextId, pre, overlap, rounds>>

\* fault: tool calls go straight to the tools node (the router of the
\* earlier chatbot.ts, which had no validate node)
shouldContinue_NoValidate(messages) ==
  IF Len(Last(messages).tool_calls) > 0 THEN "tools" ELSE "END"

\* chatbot.ts shouldContinue, on the state the question node leaves
shouldContinue(messages) ==
  IF Len(Last(messages).tool_calls) > 0 THEN "validate" ELSE "END"

\* the tool calls of a model response: the proposed shapes with fresh ids
WithIds(shapes, first) ==
  [i \in 1..Len(shapes) |->
     [id |-> first + i - 1, name |-> shapes[i].name, arg |-> shapes[i].arg]]

\* handleQuestion: the log given to model.invoke
ModelInput(t) == st[t].messages

\* fault: the count is raised on the first entry of the turn only
handleQuestion_CountOnce(t, shapes) ==
  /\ pc[t] = "question"
  /\ nextId + Len(shapes) - 1 <= MaxToolCalls
  /\ shapes # <<>> => Alone(t) /\ nObj <= 1
  /\ LET response == AIMessage(<<"answer">>, WithIds(shapes, nextId))
         delta == [messages |-> <<response>>,
                   conversationCount |-> IF rounds[t] = 0
                                           THEN st[t].conversationCount + 1
                                           ELSE st[t].conversationCount]
     IN Step(t, delta, shouldContinue(Reduce(st[t], delta).messages))
  /\ nextId' = nextId + Len(shapes)
  /\ lastRead' = NoRead
  /\ lastDelete' = "none"
  /\ orphaned' = orphaned
  /\ done' = done
  /\ UNCHANGED <<conversations, heap, nObj, started, sess, conv, text, pend,
                 resp, pre, overlap, rounds>>

\* handleQuestion: the model answers with text and zero or more tool calls
handleQuestion(t, shapes) ==
  /\ pc[t] = "question"
  /\ nextId + Len(shapes) - 1 <= MaxToolCalls
  /\ shapes # <<>> => Alone(t) /\ nObj <= 1
  /\ LET response == AIMessage(<<"answer">>, WithIds(shapes, nextId))
         delta == [messages |-> <<response>>,
                   conversationCount |-> st[t].conversationCount + 1]
     IN Step(t, delta, shouldContinue(Reduce(st[t], delta).messages))
  /\ nextId' = nextId + Len(shapes)
  /\ lastRead' = NoRead
  /\ lastDelete' = "none"
  /\ orphaned' = orphaned
  /\ done' = done
  /\ UNCHANGED <<conversations, heap, nObj, started, sess, conv, text, pend,
                 resp, pre, overlap, rounds>>

\* handleQuestion: model.invoke rejects; the node and chatbot.invoke reject
handleQuestionThrows(t) ==
  /\ pc[t] = "question"
  /\ pc' = [pc EXCEPT ![t] = "thrown"]
  /\ lastRead' = NoRead
  /\ lastDelete' = "none"
  /\ orphaned' = orphaned
  /\ done' = done
  /\ UNCHANGED <<conversations, heap, nObj, started, sess, conv, text, st, pend,
                 resp, nextId, pre, overlap, rounds>>

\* ------------------------------------------------------ validateToolCalls
\* fault: every location is taken for a single word
IsSingleWord_Any(location) == TRUE

\* !location.includes(',') && !location.includes(' ')
IsSingleWord(location) == location \in {"Paris"}

\* answer.toUpperCase().includes("AMBIGUOUS")
SaysAmbiguous(answer) ==
  answer \in {"AMBIGUOUS: Paris, France; Paris, Texas", "ambiguous"}

\* the text after the first colon, split at ';', trimmed, at most three;
\* without a colon the fallback example built from the location
ExamplesOf(answer, location) ==
  IF answer = "AMBIGUOUS: Paris, France; Paris, Texas"
    THEN <<"Paris, France", "Paris, Texas">>
    ELSE <<location, ", [State/Country]">>

ApprovalText(location, answer) ==
  <<"I found that", location, "could refer to multiple cities", "For example:">>
    \o ExamplesOf(answer, location)

ClarificationText(location) ==
  <<"[Requesting clarification]", location, "is ambiguous">>

\* fault: the approval prompt is appended to the log as an assistant message
BlockedDelta_AppendsPrompt(toolCalls, i, answer) ==
  [messages |-> <<ToolMessage(ClarificationText(toolCalls[i].arg), toolCalls[i].id),
                  AIMessage(ApprovalText(toolCalls[i].arg, answer), <<>>)>>,
   needsApproval |-> TRUE,
   pendingToolCalls |-> toolCalls,
   approvalMessage |-> ApprovalText(toolCalls[i].arg, answer)]

\* the delta returned when the call at position i is judged ambiguous
BlockedDelta(toolCalls, i, answer) ==
  [messages |-> <<ToolMessage(ClarificationText(toolCalls[i].arg), toolCalls[i].id)>>,
   needsApproval |-> TRUE,
   pendingToolCalls |-> toolCalls,
   approvalMessage |-> ApprovalText(toolCalls[i].arg, answer)]

\* fault: a failed judge call blocks (fail closed)
RECURSIVE ValidationDelta_FailClosed(_, _, _)
ValidationDelta_FailClosed(toolCalls, i, answers) ==
  IF i > Len(toolCalls) THEN [needsApproval |-> FALSE]
  ELSE IF /\ toolCalls[i].name = "get_weather"
          /\ IsSingleWord(toolCalls[i].arg)
          /\ (answers[i] = "throw" \/ SaysAmbiguous(answers[i]))
         THEN BlockedDelta(toolCalls, i, answers[i])
         ELSE ValidationDelta_FailClosed(toolCalls, i + 1, answers)

\* the for loop over toolCalls from position i on; answers[i] is what the
\* judge says if it is asked about call i
RECURSIVE ValidationDelta(_, _, _)
ValidationDelta(toolCalls, i, answers) ==
  IF i > Len(toolCalls) THEN [needsApproval |-> FALSE]
  ELSE IF /\ toolCalls[i].name = "get_weather"
          /\ IsSingleWord(toolCalls[i].arg)
          /\ answers[i] # "throw"
          /\ SaysAmbiguous(answers[i])
         THEN BlockedDelta(toolCalls, i, answers[i])
         ELSE ValidationDelta(toolCalls, i + 1, answers)

\* fault: the router ignores needsApproval
needsApprovalRouter_AlwaysTools(state) == "tools"

\* chatbot.ts needsApprovalRouter
needsApprovalRouter(state) == IF state.needsApproval THEN "END" ELSE "tools"

validateToolCalls(t, answers) ==
  /\ pc[t] = "validate"
  /\ LET toolCalls == Last(st[t].messages).tool_calls
     IN /\ DOMAIN answers = 1..Len(toolCalls)
        /\ LET delta == ValidationDelta(toolCalls, 1, answers)
           IN Step(t, delta, needsApprovalRouter(Reduce(st[t], delta)))
  /\ lastRead' = NoRead
  /\ lastDelete' = "none"
  /\ orphaned' = orphaned
  /\ done' = done
  /\ UNCHANGED <<conversations, heap, nObj, started, sess, conv, text, pend,
                 resp, nextId, pre, overlap, rounds>>

\* -------------------------------------------------------------- callTools
\* what a tool returns for a call (typeof result === 'string' ? result : ...)
ToolResult(call) == <<"result of", call.name, call.arg>>

\* fault: the error of a settled promise is dropped, leaving JSON.stringify
\* of its null result
ResultContent_NullOnError(call, outcome) ==
  IF outcome = "ok" THEN ToolResult(call) ELSE <<"null">>

\* content of the ToolMessage for one settled promise
ResultContent(call, outcome) ==
  IF outcome = "notfound" THEN <<"Error: ", "Tool not found", call.name>>
  ELSE IF outcome = "throw" THEN <<"Error: ", "invocation failed">>
  ELSE ToolResult(call)

\* fault: a call whose tool is not found yields no message (the sequential
\* callTools of the earlier chatbot.ts)
ToolMessages_SkipUnknown(toolCalls, outcomes) ==
  LET found == SelectSeq([i \in 1..Len(toolCalls) |-> i],
                         LAMBDA i : outcomes[i] # "notfound")
  IN [k \in 1..Len(found) |->
        ToolMessage(ResultContent(toolCalls[found[k]], outcomes[found[k]]),
                    toolCalls[found[k]].id)]

\* fault: every ToolMessage carries the id of the first call of the step
ToolMessages_FirstId(toolCalls, outcomes) ==
  [i \in 1..Len(toolCalls) |->
     ToolMessage(ResultContent(toolCalls[i], outcomes[i]), toolCalls[1].id)]

\* results.map(...): one ToolMessage per element of results, in input order
ToolMessages(toolCalls, outcomes) ==
  [i \in 1..Len(toolCalls) |->
     ToolMessage(ResultContent(toolCalls[i], outcomes[i]), toolCalls[i].id)]

\* callTools up to `await Promise.all`: every promise is created; a call
\* whose tool is not found has nothing to wait for
callToolsStart(t) ==
  /\ pc[t] = "tools"
  /\ LET toolCalls == Last(st[t].messages).tool_calls
     IN IF Len(toolCalls) = 0
          THEN /\ Step(t, [messages |-> <<>>], "question")
               /\ pend' = pend
          ELSE /\ pend' = [pend EXCEPT ![t] =
                            [i \in 1..Len(toolCalls) |->
                               IF toolCalls[i].name \in tools THEN "pending"
                               ELSE "notfound"]]
               /\ pc' = [pc EXCEPT ![t] = "awaitTools"]
               /\ st' = st
  /\ lastRead' = NoRead
  /\ lastDelete' = "none"
  /\ orphaned' = orphaned
  /\ done' = [done EXCEPT ![t] =
               SelectSeq([i \in 1..Len(Last(st[t].messages).tool_calls) |-> i],
                         LAMBDA i : Last(st[t].messages).tool_calls[i].name \notin tools)]
  /\ UNCHANGED <<conversations, heap, nObj, started, sess, conv, text,
                 resp, nextId, pre, overlap, rounds>>

\* one tool.invoke settles: it returns or it throws into the catch
toolSettles(t, i, outcome) ==
  /\ pc[t] = "awaitTools"
  /\ i \in DOMAIN pend[t]
  /\ pend[t][i] = "pending"
  /\ pend' = [pend EXCEPT ![t][i] = outcome]
  /\ lastRead' = NoRead
  /\ lastDelete' = "none"
  /\ orphaned' = orphaned
  /\ done' = [done EXCEPT ![t] = Append(done[t], i)]
  /\ UNCHANGED <<conversations, heap, nObj, started, pc, sess, conv, text, st,
                 resp, nextId, pre, overlap, rounds>>

\* fault: the promises do not catch, so one rejection rejects Promise.all
callToolsResult_AbortOnThrow(toolCalls, outcomes) ==
  IF \E i \in DOMAIN outcomes : outcomes[i] = "throw"
    THEN [delta |-> [needsApproval |-> FALSE], next |-> "thrown"]
    ELSE [delta |-> [messages |-> ToolMessages(toolCalls, outcomes),
                     needsApproval |-> FALSE, pendingToolCalls |-> <<>>,
                     approvalMessage |-> <<>>],
          next |-> "question"]

\* fault: the node returns its messages only (the callTools of the earlier
\* chatbot.ts), leaving the approval channels as they were
callToolsResult_KeepFields(toolCalls, outcomes) ==
  [delta |-> [messages |-> ToolMessages(toolCalls, outcomes)],
   next |-> "question"]

\* fault: the edge out of the tools node leads to END
callToolsResult_ToEnd(toolCalls, outcomes) ==
  [delta |-> [messages |-> ToolMessages(toolCalls, outcomes),
              needsApproval |-> FALSE, pendingToolCalls |-> <<>>,
              approvalMessage |-> <<>>],
   next |-> "END"]

\* `await Promise.all`, every promise having caught its own error, and the
\* returned delta; the edge tools -> question follows
callToolsResult(toolCalls, outcomes) ==
  [delta |-> [messages |-> ToolMessages(toolCalls, outcomes),
              needsApproval |-> FALSE, pendingToolCalls |-> <<>>,
              approvalMessage |-> <<>>],
   next |-> "question"]

\* fault: the node goes on only when every promise has fulfilled with a
\* result; a call that failed is waited for forever
callToolsJoin_WaitsForSuccess(t) ==
  /\ pc[t] = "awaitTools"
  /\ \A i \in DOMAIN pend[t] : pend[t][i] = "ok"
  /\ LET r == callToolsResult(Last(st[t].messages).tool_calls, pend[t])
     IN Step(t, r.delta, r.next)
  /\ rounds' = [rounds EXCEPT ![t] = rounds[t] + 1]
  /\ lastRead' = NoRead
  /\ lastDelete' = "none"
  /\ orphaned' = orphaned
  /\ done' = done
  /\ UNCHANGED <<conversations, heap, nObj, started, sess, conv, text, pend,
                 resp, nextId, pre, overlap>>

\* fault: each promise pushes its ToolMessage when it settles, so the
\* messages come in the order of completion
callToolsJoin_CompletionOrder(t) ==
  /\ pc[t] = "awaitTools"
  /\ \A i \in DOMAIN pend[t] : pend[t][i] # "pending"
  /\ LET toolCalls == Last(st[t].messages).tool_calls
         toolMessages ==
           [k \in 1..Len(done[t]) |->
              ToolMessage(ResultContent(toolCalls[done[t][k]], pend[t][done[t][k]]),
                          toolCalls[done[t][k]].id)]
     IN Step(t, [messages |-> toolMessages, needsApproval |-> FALSE,
                 pendingToolCalls |-> <<>>, approvalMessage |-> <<>>], "question")
  /\ rounds' = [rounds EXCEPT ![t] = rounds[t] + 1]
  /\ lastRead' = NoRead
  /\ lastDelete' = "none"
  /\ orphaned' = orphaned
  /\ done' = done
  /\ UNCHANGED <<conversations, heap, nObj, started, sess, conv, text, pend,
                 resp, nextId, pre, overlap>>

\* fault: the node goes on as soon as one promise has settled (a race in
\* place of Promise.all)
callToolsJoin_Race(t) ==
  /\ pc[t] = "awaitTools"
  /\ \E i \in DOMAIN pend[t] : pend[t][i] # "pending"
  /\ LET r == callToolsResult(Last(st[t].messages).tool_calls, pend[t])
     IN Step(t, r.delta, r.next)
  /\ rounds' = [rounds EXCEPT ![t] = rounds[t] + 1]
  /\ lastRead' = NoRead
  /\ lastDelete' = "none"
  /\ orphaned' = orphaned
  /\ done' = done
  /\ UNCHANGED <<conversations, heap, nObj, started, sess, conv, text, pend,
                 resp, nextId, pre, overlap>>

\* callTools from Promise.all on
callToolsJoin(t) ==
  /\ pc[t] = "awaitTools"
  /\ \A i \in DOMAIN pend[t] : pend[t][i] # "pending"
  /\ LET r == callToolsResult(Last(st[t].messages).tool_calls, pend[t])
     IN Step(t, r.delta, r.next)
  /\ rounds' = [rounds EXCEPT ![t] = rounds[t] + 1]
  /\ lastRead' = NoRead
  /\ lastDelete' = "none"
  /\ orphaned' = orphaned
  /\ done' = done
  /\ UNCHANGED <<conversations, heap, nObj, started, sess, conv, text, pend,
                 resp, nextId, pre, overlap>>

\* ------------------------------------------------------ POST /api/chat (2)
\* fault: only the messages after the last user message are walked
RECURSIVE AllToolCalls_ThisTurn(_)
AllToolCalls_ThisTurn(messages) ==
  IF messages = <<>> THEN <<>>
  ELSE IF \E i \in DOMAIN Tail(messages) : Tail(messages)[i].kind = "human"
    THEN AllToolCalls_ThisTurn(Tail(messages))
  ELSE (IF Head(messages).kind = "ai" THEN Head(messages).tool_calls ELSE <<>>)
         \o AllToolCalls_ThisTurn(Tail(messages))

\* every tool call of the ai messages, in log order (server.ts 87-102)
RECURSIVE AllToolCalls(_)
AllToolCalls(messages) ==
  IF messages = <<>> THEN <<>>
  ELSE (IF Head(messages).kind = "ai" THEN Head(messages).tool_calls ELSE <<>>)
         \o AllToolCalls(Tail(messages))

InSeq(x, sq) == \E i \in DOMAIN sq : sq[i] = x

\* fault: every name is pushed (no includes test)
RECURSIVE ToolsUsed_NoDedup(_, _)
ToolsUsed_NoDedup(calls, acc) ==
  IF calls = <<>> THEN acc
  ELSE ToolsUsed_NoDedup(Tail(calls), Append(acc, Head(calls).name))

\* toolsUsed: push tc.name unless toolsUsed.includes(tc.name)
RECURSIVE ToolsUsed(_, _)
ToolsUsed(calls, acc) ==
  IF calls = <<>> THEN acc
  ELSE ToolsUsed(Tail(calls),
                 IF InSeq(Head(calls).name, acc) THEN acc
                 ELSE Append(acc, Head(calls).name))

ToolCallDetails(calls) ==
  [i \in 1..Len(calls) |-> [name |-> calls[i].name, args |-> calls[i].arg]]

\* fault: the handler has no approval branch
ChatResponse_NoApprovalBranch(result) ==
  [status |-> 200, response |-> Last(result.messages).content,
   intent |-> result.userIntent,
   conversationCount |-> result.conversationCount,
   toolsUsed |-> ToolsUsed(AllToolCalls(result.messages), <<>>),
   toolCallDetails |-> ToolCallDetails(AllToolCalls(result.messages)),
   needsApproval |-> FALSE]

\* the body of res.json for a result of chatbot.invoke
ChatResponse(result) ==
  IF result.needsApproval /\ result.approvalMessage # <<>>
    THEN [status |-> 200, response |-> result.approvalMessage,
          intent |-> result.userIntent,
          conversationCount |-> result.conversationCount,
          toolsUsed |-> <<>>, toolCallDetails |-> <<>>, needsApproval |-> TRUE]
    ELSE [status |-> 200, response |-> Last(result.messages).content,
          intent |-> result.userIntent,
          conversationCount |-> result.conversationCount,
          toolsUsed |-> ToolsUsed(AllToolCalls(result.messages), <<>>),
          toolCallDetails |-> ToolCallDetails(AllToolCalls(result.messages)),
          needsApproval |-> FALSE]

\* fault: one conversation shared by all sessions (the result is stored
\* into every Conversation object)
PostReturn_Shared(t) ==
  /\ pc[t] = "END"
  /\ heap' = [o \in Objs |->
                [messages |-> st[t].messages,
                 conversationCount |-> st[t].conversationCount]]
  /\ resp' = [resp EXCEPT ![t] = ChatResponse(st[t])]
  /\ pc' = [pc EXCEPT ![t] = "sent"]
  /\ lastRead' = NoRead
  /\ lastDelete' = "none"
  /\ orphaned' = orphaned
  /\ done' = done
  /\ UNCHANGED <<conversations, nObj, started, sess, conv, text, st, pend,
                 nextId, pre, overlap, rounds>>

\* fault: the handler saves the conversation under its id after the invoke
\* (conversations.set(sessionId, conversation))
PostReturn_SetsEntry(t) ==
  /\ pc[t] = "END"
  /\ heap' = [heap EXCEPT ![conv[t]] =
                [messages |-> st[t].messages,
                 conversationCount |-> st[t].conversationCount]]
  /\ conversations' = [conversations EXCEPT ![sess[t]] = conv[t]]
  /\ resp' = [resp EXCEPT ![t] = ChatResponse(st[t])]
  /\ pc' = [pc EXCEPT ![t] = "sent"]
  /\ lastRead' = NoRead
  /\ lastDelete' = "none"
  /\ orphaned' = orphaned
  /\ done' = done
  /\ UNCHANGED <<nObj, started, sess, conv, text, st, pend,
                 nextId, pre, overlap, rounds>>

\* server.ts 63-113: chatbot.invoke resolved; store the result and answer
PostReturn(t) ==
  /\ pc[t] = "END"
  /\ heap' = [heap EXCEPT ![conv[t]] =
                [messages |-> st[t].messages,
                 conversationCount |-> st[t].conversationCount]]
  /\ resp' = [resp EXCEPT ![t] = ChatResponse(st[t])]
  /\ pc' = [pc EXCEPT ![t] = "sent"]
  /\ lastRead' = NoRead
  /\ lastDelete' = "none"
  /\ orphaned' = orphaned
  /\ done' = done
  /\ UNCHANGED <<conversations, nObj, started, sess, conv, text, st, pend,
                 nextId, pre, overlap, rounds>>

\* server.ts 114-120: chatbot.invoke rejected; answer 500
PostCatch(t) ==
  /\ pc[t] = "thrown"
  /\ resp' = [resp EXCEPT ![t] = [status |-> 500, error |-> "Failed to process message"]]
  /\ pc' = [pc EXCEPT ![t] = "error"]
  /\ lastRead' = NoRead
  /\ lastDelete' = "none"
  /\ orphaned' = orphaned
  /\ done' = done
  /\ UNCHANGED <<conversations, heap, nObj, started, sess, conv, text, st, pend,
                 nextId, pre, overlap, rounds>>

\* -------------------------------------------- GET /api/conversation/:id
\* msg._getType() === "human" ? "user" : "assistant"
RoleView(messages) ==
  [i \in 1..Len(messages) |->
     [role |-> IF messages[i].kind = "human" THEN "user" ELSE "assistant",
      content |-> messages[i].content]]

GetBody(s) ==
  IF conversations[s] = NoObj
    THEN [sessionId |-> s, messages |-> <<>>, conversationCount |-> 0]
    ELSE [sessionId |-> s,
          messages |-> RoleView(heap[conversations[s]].messages),
          conversationCount |-> heap[conversations[s]].conversationCount]

GetConversation(s) ==
  /\ ~ToolRun
  /\ lastRead' = GetBody(s)
  /\ lastRead' # lastRead
  /\ lastDelete' = "none"
  /\ orphaned' = orphaned
  /\ done' = done
  /\ UNCHANGED <<conversations, heap, nObj, started, pc, sess, conv, text, st,
                 pend, resp, nextId, pre, overlap, rounds>>

\* ----------------------------------------- DELETE /api/conversation/:id
\* fault: the handler empties the log of the entry and keeps the entry
DeleteConversation_KeepEntry(s) ==
  /\ ~ToolRun
  /\ conversations[s] # NoObj
  /\ heap' = [heap EXCEPT ![conversations[s]].messages = <<>>]
  /\ lastRead' = NoRead
  /\ lastDelete' = s
  /\ orphaned' = orphaned \cup {t \in Turns : InProgress(t) /\ sess[t] = s}
  /\ done' = done
  /\ UNCHANGED <<conversations, nObj, started, pc, sess, conv, text, st, pend, resp,
                 nextId, pre, overlap, rounds>>

\* conversations.delete(sessionId); a DELETE of an id that has no entry
\* changes nothing and is left out
DeleteConversation(s) ==
  /\ ~ToolRun
  /\ conversations[s] # NoObj
  /\ conversations' = [conversations EXCEPT ![s] = NoObj]
  /\ lastRead' = NoRead
  /\ lastDelete' = s
  /\ orphaned' = orphaned \cup {t \in Turns : InProgress(t) /\ sess[t] = s}
  /\ done' = done
  /\ UNCHANGED <<heap, nObj, started, pc, sess, conv, text, st, pend, resp,
                 nextId, pre, overlap, rounds>>

\* ------------------------------------------------------------------ Next
Next ==
  \/ \E s \in Sessions, msg \in UserTexts : PostChat(s, msg)
  \/ \E t \in Turns, answer \in IntentAnswers, fails \in BOOLEAN :
       analyzeIntent(t, answer, fails)
  \/ \E t \in Turns : handleGreeting(t)
  \/ \E t \in Turns : handleFarewell(t)
  \/ \E t \in Turns, shapes \in SeqsUpTo(CallShapes, MaxCalls) : handleQuestion(t, shapes)
  \/ \E t \in Turns : handleQuestionThrows(t)
  \/ \E t \in Turns, answers \in SeqsUpTo(JudgeAnswers, MaxCalls) :
       validateToolCalls(t, answers)
  \/ \E t \in Turns : callToolsStart(t)
  \/ \E t \in Turns, i \in 1..MaxCalls, outcome \in Outcomes : toolSettles(t, i, outcome)
  \/ \E t \in Turns : callToolsJoin(t)
  \/ \E t \in Turns : PostReturn(t)
  \/ \E t \in Turns : PostCatch(t)
  \/ \E s \in Sessions : GetConversation(s)
  \/ \E s \in Sessions : DeleteConversation(s)

Spec == Init /\ [][Next]_vars

\* --------------------------------------------- the intent model is down
\* every intentModel.invoke rejects (analyzeIntent's catch branch runs)
NextIntentDown ==
  \/ \E s \in Sessions, msg \in UserTexts : PostChat(s, msg)
  \/ \E t \in Turns : analyzeIntent(t, {}, TRUE)
  \/ \E t \in Turns : handleGreeting(t)
  \/ \E t \in Turns : handleFarewell(t)
  \/ \E t \in Turns, shapes \in SeqsUpTo(CallShapes, MaxCalls) : handleQuestion(t, shapes)
  \/ \E t \in Turns : handleQuestionThrows(t)
  \/ \E t \in Turns, answers \in SeqsUpTo(JudgeAnswers, MaxCalls) :
       validateToolCalls(t, answers)
  \/ \E t \in Turns : callToolsStart(t)
  \/ \E t \in Turns, i \in 1..MaxCalls, outcome \in Outcomes : toolSettles(t, i, outcome)
  \/ \E t \in Turns : callToolsJoin(t)
  \/ \E t \in Turns : PostReturn(t)
  \/ \E t \in Turns : PostCatch(t)

SpecIntentDown == Init /\ [][NextIntentDown]_vars

\* ------------------------------------------- the ambiguity judge is down
\* every validationModel.invoke rejects (validateToolCalls' catch runs)
NextJudgeDown ==
  \/ \E s \in Sessions, msg \in UserTexts : PostChat(s, msg)
  \/ \E t \in Turns, answer \in IntentAnswers, fails \in BOOLEAN :
       analyzeIntent(t, answer, fails)
  \/ \E t \in Turns : handleGreeting(t)
  \/ \E t \in Turns : handleFarewell(t)
  \/ \E t \in Turns, shapes \in SeqsUpTo(CallShapes, MaxCalls) : handleQuestion(t, shapes)
  \/ \E t \in Turns : handleQuestionThrows(t)
  \/ \E t \in Turns, answers \in SeqsUpTo({"throw"}, MaxCalls) :
       validateToolCalls(t, answers)
  \/ \E t \in Turns : callToolsStart(t)
  \/ \E t \in Turns, i \in 1..MaxCalls, outcome \in Outcomes : toolSettles(t, i, outcome)
  \/ \E t \in Turns : callToolsJoin(t)
  \/ \E t \in Turns : PostReturn(t)
  \/ \E t \in Turns : PostCatch(t)

SpecJudgeDown == Init /\ [][NextJudgeDown]_vars

\* ------------------------------------------- blank messages are posted
NextBlank ==
  \/ \E s \in Sessions, msg \in BlankTexts : PostChat(s, msg)
  \/ \E s \in Sessions, msg \in BlankTexts : PostChatInvalid(s, msg)
  \/ \E t \in Turns, answer \in IntentAnswers, fails \in BOOLEAN :
       analyzeIntent(t, answer, fails)
  \/ \E t \in Turns : handleGreeting(t)
  \/ \E t \in Turns : handleFarewell(t)
  \/ \E t \in Turns, shapes \in SeqsUpTo(CallShapes, MaxCalls) : handleQuestion(t, shapes)
  \/ \E t \in Turns : handleQuestionThrows(t)
  \/ \E t \in Turns, answers \in SeqsUpTo(JudgeAnswers, MaxCalls) :
       validateToolCalls(t, answers)
  \/ \E t \in Turns : callToolsStart(t)
  \/ \E t \in Turns, i \in 1..MaxCalls, outcome \in Outcomes : toolSettles(t, i, outcome)
  \/ \E t \in Turns : callToolsJoin(t)
  \/ \E t \in Turns : PostReturn(t)
  \/ \E t \in Turns : PostCatch(t)

SpecBlank == Init /\ [][NextBlank]_vars

\* ------------------------------------- createChatbot(checkpointer), one thread
\* graph.compile({ checkpointer }): the channels of a thread are saved after
\* every node and the next invoke of the thread starts from them, its input
\* merged by the reducers.  Invocations of the thread follow one another.
Checkpoint(t) == IF t = 1 THEN DefaultState ELSE st[t - 1]

InvokeThread(msg) ==
  /\ started < MaxTurns
  /\ Quiet
  /\ LET t == started + 1
     IN /\ started' = t
        /\ sess' = [sess EXCEPT ![t] = "thread"]
        /\ text' = [text EXCEPT ![t] = msg]
        /\ pre' = [pre EXCEPT ![t] =
                     [messages |-> Checkpoint(t).messages,
                      conversationCount |-> Checkpoint(t).conversationCount]]
        /\ st' = [st EXCEPT ![t] =
                    Reduce(Checkpoint(t), [messages |-> <<HumanMessage(msg)>>])]
        /\ pc' = [pc EXCEPT ![t] = "analyzeIntent"]
  /\ lastRead' = NoRead
  /\ lastDelete' = "none"
  /\ orphaned' = orphaned
  /\ done' = done
  /\ UNCHANGED <<conversations, heap, nObj, conv, pend, resp, nextId, overlap, rounds>>

\* the invoke of the thread resolves (END) or rejects
InvokeSettles(t) ==
  /\ pc[t] \in {"END", "thrown"}
  /\ pc' = [pc EXCEPT ![t] = IF pc[t] = "END" THEN "sent" ELSE "error"]
  /\ lastRead' = NoRead
  /\ lastDelete' = "none"
  /\ orphaned' = orphaned
  /\ done' = done
  /\ UNCHANGED <<conversations, heap, nObj, started, sess, conv, text, st, pend,
                 resp, nextId, pre, overlap, rounds>>

NextThread ==
  \/ \E msg \in UserTexts : InvokeThread(msg)
  \/ \E t \in Turns, answer \in IntentAnswers, fails \in BOOLEAN :
       analyzeIntent(t, answer, fails)
  \/ \E t \in Turns : handleGreeting(t)
  \/ \E t \in Turns : handleFarewell(t)
  \/ \E t \in Turns, shapes \in SeqsUpTo(CallShapes, MaxCalls) : handleQuestion(t, shapes)
  \/ \E t \in Turns : handleQuestionThrows(t)
  \/ \E t \in Turns, answers \in SeqsUpTo(JudgeAnswers, MaxCalls) :
       validateToolCalls(t, answers)
  \/ \E t \in Turns : callToolsStart(t)
  \/ \E t \in Turns, i \in 1..MaxCalls, outcome \in Outcomes : toolSettles(t, i, outcome)
  \/ \E t \in Turns : callToolsJoin(t)
  \/ \E t \in Turns : InvokeSettles(t)

SpecThread == Init /\ [][NextThread]_vars

\* ------------------------------------ every model and tool call returns
\* the steps of one request from chatbot.invoke to res.json when no call of
\* the question model rejects: the node the graph is at runs, its await
\* resolves, and the handler sends the response
TurnStep(t) ==
  \/ \E answer \in IntentAnswers, fails \in BOOLEAN : analyzeIntent(t, answer, fails)
  \/ handleGreeting(t)
  \/ handleFarewell(t)
  \/ \E shapes \in SeqsUpTo(CallShapes, MaxCalls) : handleQuestion(t, shapes)
  \/ \E answers \in SeqsUpTo(JudgeAnswers, MaxCalls) : validateToolCalls(t, answers)
  \/ callToolsStart(t)
  \/ \E i \in 1..MaxCalls, outcome \in Outcomes : toolSettles(t, i, outcome)
  \/ callToolsJoin(t)
  \/ PostReturn(t)

NextReturns ==
  \/ \E s \in Sessions, msg \in UserTexts : PostChat(s, msg)
  \/ \E t \in Turns : TurnStep(t)

\* the event loop runs every continuation that is ready: a request whose
\* next step stays possible takes it
SpecReturns ==
  Init /\ [][NextReturns]_vars /\ \A t \in Turns : WF_vars(TurnStep(t))

\* ================================================================ claims
\* what a turn added to the log it started from: its user message and the
\* messages its nodes appended; and by how much it raised the count
UserMessage(t) == HumanMessage(text[t])
Responses(t) == SubSeq(st[t].messages, Len(pre[t].messages) + 2, Len(st[t].messages))
Increment(t) == st[t].conversationCount - pre[t].conversationCount
\* the turn's session still maps to the conversation object the turn holds
StillStored(t) == conversations[sess[t]] = conv[t]
\* the ids of the tool-result messages of a log
ResultsFor(messages, id) ==
  {i \in DOMAIN messages : messages[i].kind = "tool" /\ messages[i].tool_call_id = id}
\* index of the last assistant message of a log (0 if none)
LastAI(messages) ==
  IF \E i \in DOMAIN messages : messages[i].kind = "ai"
    THEN CHOOSE i \in DOMAIN messages :
           messages[i].kind = "ai" /\ \A j \in DOMAIN messages : messages[j].kind = "ai" => j <= i
    ELSE 0
\* a turn whose callTools has just delivered: the proposing message and the results
AfterTools(t) == pc[t] = "question" /\ rounds[t] > 0
StepCalls(t) == st[t].messages[LastAI(st[t].messages)].tool_calls
StepResults(t) ==
  SubSeq(st[t].messages, LastAI(st[t].messages) + 1, Len(st[t].messages))
\* a turn that validateToolCalls blocked
Blocked(t) == pc[t] \in {"END", "sent"} /\ st[t].needsApproval

\* C1: when validateToolCalls blocks, every pending tool call of the assistant
\* message has exactly one tool-result message in the log of the turn.
C1_EveryPendingCallAnswered ==
  \A t \in Turns :
    Blocked(t) =>
      \A i \in DOMAIN st[t].pendingToolCalls :
        Cardinality(ResultsFor(st[t].messages, st[t].pendingToolCalls[i].id)) = 1

\* C2: two turns of one conversation that overlapped in time leave the stored
\* log and count of one of the two serial orders.
Serial(base, a, b) ==
  [messages |-> base.messages \o <<UserMessage(a)>> \o Responses(a)
                              \o <<UserMessage(b)>> \o Responses(b),
   conversationCount |-> base.conversationCount + Increment(a) + Increment(b)]

C2_OverlappingTurnsSerialized ==
  \A a \in Turns, b \in Turns :
    ( /\ a < b
      /\ pc[a] = "sent" /\ pc[b] = "sent"
      /\ overlap[a] /\ overlap[b]
      /\ conv[a] = conv[b]
      /\ \A u \in Turns \ {a, b} : conv[u] # conv[a] )
    => heap[conv[a]] \in {Serial(pre[a], a, b), Serial(pre[a], b, a)}

\* C3: a turn that failed leaves the stored log and count at their pre-turn
\* values (so a retry adds the user message once).
C3_FailedTurnNotPersisted ==
  \A t \in Turns :
    ( /\ pc[t] = "error"
      /\ ~overlap[t]
      /\ \A u \in Turns : u > t => conv[u] # conv[t] )
    => heap[conv[t]] = pre[t]

\* C4: in the graph state of every turn, after every node's delta is merged,
\* needsApproval holds exactly when pendingToolCalls and approvalMessage are
\* both non-empty, and when it does not hold both are empty; stated for the
\* thread whose state the checkpointer keeps from one turn to the next.
C4_ApprovalFieldsConsistent ==
  \A t \in Turns :
    /\ st[t].needsApproval =>
         st[t].pendingToolCalls # <<>> /\ st[t].approvalMessage # <<>>
    /\ ~st[t].needsApproval =>
         st[t].pendingToolCalls = <<>> /\ st[t].approvalMessage = <<>>

\* C5: the number of callTools passes of a turn stays within a fixed cap.
\* No cap exists in the code; any cap below the explored depth is exceeded.
IterationCap == MaxToolCalls - 1

C5_RoundTripsCapped == \A t \in Turns : rounds[t] <= IterationCap

\* C6: callTools returns exactly one tool-result message per tool call of the
\* step, each carrying the id of its call.
C6_OneResultPerCall ==
  \A t \in Turns :
    AfterTools(t) =>
      /\ Len(StepResults(t)) = Len(StepCalls(t))
      /\ \A i \in DOMAIN StepResults(t) : StepResults(t)[i].kind = "tool"
      /\ \A i \in DOMAIN StepCalls(t) :
           Cardinality(ResultsFor(StepResults(t), StepCalls(t)[i].id)) = 1

\* C6 witness: a step of two calls, one naming an unknown tool, one thrown
C6_Witness ==
  \E t \in Turns :
    /\ AfterTools(t)
    /\ Len(StepCalls(t)) = 2
    /\ \E i, j \in DOMAIN pend[t] : pend[t][i] = "notfound" /\ pend[t][j] = "throw"

\* C7: a failed invocation leaves the others alone: every call that succeeded
\* has the content its tool returned, and a turn is never aborted in callTools
\* (a turn that threw did so in the question node).
C7_FailureIsolated ==
  \A t \in Turns :
    /\ AfterTools(t) =>
         \A i \in DOMAIN StepCalls(t) :
           pend[t][i] = "ok" =>
             \E k \in ResultsFor(StepResults(t), StepCalls(t)[i].id) :
               StepResults(t)[k].content = ToolResult(StepCalls(t)[i])
    /\ pc[t] = "thrown" => Last(st[t].messages).kind # "ai"

\* C7 witness: a step in which one call threw and another succeeded
C7_Witness ==
  \E t \in Turns :
    /\ AfterTools(t)
    /\ \E i, j \in DOMAIN pend[t] : pend[t][i] = "throw" /\ pend[t][j] = "ok"

\* C8: a completed turn that ran with no other request of its session in
\* progress leaves a log that extends the log it started from.
C8_LogOnlyGrows ==
  \A t \in Turns :
    (pc[t] = "sent" /\ ~overlap[t]) =>
      /\ IsPrefix(pre[t].messages, heap[conv[t]].messages)
      /\ Len(heap[conv[t]].messages) > Len(pre[t].messages)

\* C8 witness: the second of two completed sequential turns of a conversation
C8_Witness ==
  \E t \in Turns :
    /\ pc[t] = "sent" /\ ~overlap[t] /\ StillStored(t)
    /\ \E u \in Turns : u < t /\ pc[u] = "sent" /\ conv[u] = conv[t]
    /\ Len(pre[t].messages) >= 2

\* C9: a read issued while a turn of the session is in progress returns the
\* pre-turn state (the post-turn state exists only once the turn is over).
C9_NoTornRead ==
  \A t \in Turns :
    ( /\ InProgress(t)
      /\ ~overlap[t]
      /\ StillStored(t)
      /\ lastRead.sessionId = sess[t] )
    => /\ lastRead.messages = RoleView(pre[t].messages)
       /\ lastRead.conversationCount = pre[t].conversationCount

\* C10: analyzeIntent is followed by greeting for intent greeting, farewell
\* for farewell and question for every other intent, unknown included.
C10_RouteByIntent ==
  /\ [][\A t \in Turns :
          (pc[t] = "analyzeIntent" /\ pc'[t] # "analyzeIntent") =>
            pc'[t] = (IF st'[t].userIntent = "greeting" THEN "greeting"
                      ELSE IF st'[t].userIntent = "farewell" THEN "farewell"
                      ELSE "question")]_vars
  /\ routeByIntent("unknown") = "question"

\* C10 witness: a turn classified as farewell stands at the farewell node
C10_Witness ==
  \E t \in Turns : pc[t] = "farewell" /\ st[t].userIntent = "farewell"

\* a step of turn t that leaves node n
Leaves(t, n) == pc[t] = n /\ pc'[t] # n

C12_ValidateRouting ==
  [][\A t \in Turns :
       /\ Leaves(t, "validate") =>
            /\ pc'[t] \in {"END", "tools"}
            /\ pc'[t] = "END" <=>
                 /\ Len(st'[t].messages) = Len(st[t].messages) + 1
                 /\ st'[t].needsApproval
                 /\ st'[t].approvalMessage # <<>>
                 /\ st'[t].pendingToolCalls = Last(st[t].messages).tool_calls
            /\ pc'[t] = "tools" <=>
                 /\ st'[t].messages = st[t].messages
                 /\ ~st'[t].needsApproval
       /\ (pc'[t] = "tools" /\ pc[t] # "tools") =>
            pc[t] = "validate" /\ ~st'[t].needsApproval]_vars

\* C12 witness: a turn that validate blocked stands at END
C12_Witness ==
  \E t \in Turns :
    /\ pc[t] = "END"
    /\ st[t].needsApproval
    /\ Last(st[t].messages).kind = "tool"

\* the tools node: callTools before and at its await
InTools(t) == pc[t] \in {"tools", "awaitTools"}

\* C13: the tools node is always followed by the question node, and the log
\* that question node gives to the model holds the tool-result messages of
\* the step, appended after the proposing message.
C13_ToolsThenQuestion ==
  [][\A t \in Turns :
       /\ (InTools(t) /\ pc'[t] \notin {"tools", "awaitTools"}) =>
            /\ pc'[t] = "question"
            /\ LET calls == Last(st[t].messages).tool_calls
               IN /\ Len(st'[t].messages) = Len(st[t].messages) + Len(calls)
                  /\ SubSeq(st'[t].messages, 1, Len(st[t].messages)) = st[t].messages
                  /\ \A i \in DOMAIN calls :
                       /\ st'[t].messages[Len(st[t].messages) + i].kind = "tool"
                       /\ st'[t].messages[Len(st[t].messages) + i].tool_call_id = calls[i].id
       /\ (Leaves(t, "question") /\ rounds[t] > 0) =>
            \A i \in DOMAIN StepCalls(t) :
              \E k \in DOMAIN ModelInput(t) :
                /\ k > LastAI(ModelInput(t))
                /\ ModelInput(t)[k].kind = "tool"
                /\ ModelInput(t)[k].tool_call_id = StepCalls(t)[i].id]_vars

\* C13 witness: the question node has answered after a tools pass of two calls
C13_Witness ==
  \E t \in Turns :
    /\ pc[t] = "END"
    /\ rounds[t] = 1
    /\ Len(st[t].messages) >= 5
    /\ Last(st[t].messages).kind = "ai"

\* C14: callTools is a barrier: at its await every call of the step has been
\* started, it returns only when every call has settled, and the question
\* node runs again only with a result of every call in the log.
C14_ToolsBarrier ==
  /\ [](\A t \in Turns :
          pc[t] = "awaitTools" =>
            /\ DOMAIN pend[t] = DOMAIN Last(st[t].messages).tool_calls
            /\ Last(st[t].messages).kind = "ai")
  /\ [][\A t \in Turns :
          Leaves(t, "awaitTools") =>
            /\ \A i \in DOMAIN pend[t] : pend[t][i] \in {"ok", "throw", "notfound"}
            /\ pc'[t] = "question"
            /\ \A i \in DOMAIN pend[t] :
                 Cardinality(ResultsFor(st'[t].messages,
                                        Last(st[t].messages).tool_calls[i].id)) = 1]_vars

\* C14 witness: callTools waits with one call settled and another pending
C14_Witness ==
  \E t \in Turns :
    /\ pc[t] = "awaitTools"
    /\ Len(pend[t]) = 2
    /\ pend[t][2] \in {"ok", "throw"}
    /\ pend[t][1] = "pending"

\* C15: every run of the question node raises conversationCount by one and
\* no other node of the question path changes it: a turn stands at its
\* starting count plus the tools passes done, plus one once the question
\* node has answered the current pass.
C15_CountPerQuestionCall ==
  \A t \in Turns :
    /\ pc[t] = "analyzeIntent" => Increment(t) = 0
    /\ pc[t] \in {"question", "thrown", "error"} => Increment(t) = rounds[t]
    /\ pc[t] \in {"validate", "tools", "awaitTools"} => Increment(t) = rounds[t] + 1
    /\ (pc[t] \in {"END", "sent"} /\ st[t].userIntent = "question") =>
         Increment(t) = rounds[t] + 1
    /\ (pc[t] = "sent" /\ ~overlap[t] /\ StillStored(t)
          /\ st[t].userIntent = "question"
          /\ \A u \in Turns : u > t => conv[u] # conv[t]) =>
         heap[conv[t]].conversationCount = pre[t].conversationCount + rounds[t] + 1

\* C15 witness: a completed question turn with one tools pass, its count
\* raised by two
C15_Witness ==
  \E t \in Turns :
    /\ pc[t] = "sent"
    /\ rounds[t] = 1
    /\ resp[t].conversationCount = pre[t].conversationCount + 2

\* C16: a turn that validate blocked runs no tool of the blocked message and
\* nothing after validate; it ends with needsApproval and an approvalMessage
\* naming the location of a pending weather call, and the body sent is that
\* approvalMessage with empty toolsUsed and toolCallDetails.
C16_BlockedTurn ==
  \A t \in Turns :
    /\ st[t].needsApproval => pc[t] \in {"END", "sent"}
    /\ Blocked(t) =>
         /\ st[t].approvalMessage # <<>>
         /\ \E i \in DOMAIN st[t].pendingToolCalls :
              /\ st[t].pendingToolCalls[i].name = "get_weather"
              /\ InSeq(st[t].pendingToolCalls[i].arg, st[t].approvalMessage)
         /\ Last(st[t].messages).kind = "tool"
         /\ st[t].messages[Len(st[t].messages) - 1].tool_calls = st[t].pendingToolCalls
         /\ \A i \in DOMAIN st[t].pendingToolCalls :
              \A k \in ResultsFor(st[t].messages, st[t].pendingToolCalls[i].id) :
                st[t].messages[k].content =
                  ClarificationText(st[t].pendingToolCalls[i].arg)
         /\ pc[t] = "sent" =>
              /\ resp[t].status = 200
              /\ resp[t].response = st[t].approvalMessage
              /\ resp[t].toolsUsed = <<>>
              /\ resp[t].toolCallDetails = <<>>
              /\ resp[t].needsApproval

\* C16 witness: the response of a blocked turn of two proposed calls was sent
C16_Witness ==
  \E t \in Turns :
    /\ pc[t] = "sent"
    /\ st[t].needsApproval
    /\ Len(st[t].pendingToolCalls) = 2
    /\ resp[t].needsApproval

\* C17: a turn classified greeting or farewell appends one assistant message
\* with the fixed text and no tool calls, raises conversationCount by one and
\* ends; the question, validate and tools nodes run in question turns only.
C17_GreetingFarewellTurn ==
  \A t \in Turns :
    /\ pc[t] = "greeting" => st[t].userIntent = "greeting"
    /\ pc[t] = "farewell" => st[t].userIntent = "farewell"
    /\ pc[t] \in {"question", "validate", "tools", "awaitTools", "thrown", "error"} =>
         st[t].userIntent = "question"
    /\ (pc[t] \in {"END", "sent"} /\ st[t].userIntent \in {"greeting", "farewell"}) =>
         /\ st[t].messages =
              pre[t].messages \o
                <<UserMessage(t),
                  AIMessage(IF st[t].userIntent = "greeting" THEN GreetingText
                            ELSE FarewellText, <<>>)>>
         /\ Increment(t) = 1
         /\ rounds[t] = 0

\* C17 witness: a farewell turn and a greeting turn have both completed
C17_Witness ==
  \E t, u \in Turns :
    /\ pc[t] = "sent" /\ st[t].userIntent = "farewell"
    /\ pc[u] = "sent" /\ st[u].userIntent = "greeting"

\* a turn whose analyzeIntent has run
Classified(t) == pc[t] \notin {"new", "analyzeIntent"}

\* C18: once analyzeIntent has run the intent is greeting, farewell or
\* question, never unknown, whatever the intent model answered; an answer
\* naming none of the three categories gives question.
C18_IntentNeverUnknown ==
  /\ \A t \in Turns :
       /\ Classified(t) => st[t].userIntent \in {"greeting", "farewell", "question"}
       /\ pc[t] = "sent" => resp[t].intent \in {"greeting", "farewell", "question"}
  /\ \A answer \in IntentAnswers :
       /\ DetectedIntent(answer) # "unknown"
       /\ answer = {} => DetectedIntent(answer) = "question"

\* C18 witness: the turn of a greeting text was classified question and has
\* been answered (the intent model named neither greeting nor farewell)
C18_Witness ==
  \E t \in Turns :
    /\ pc[t] = "sent"
    /\ text[t] = "hello"
    /\ resp[t].intent = "question"

\* C19: with the intent model failing, analyzeIntent completes with the
\* keyword intent of the user text (greeting for a greeting word, farewell
\* for a farewell word, question otherwise), the turn goes on to that
\* handler, and no turn is aborted before the question node.
C19_IntentFallback ==
  \A t \in Turns :
    /\ Classified(t) =>
         st[t].userIntent = (IF text[t] = "hello" THEN "greeting"
                             ELSE IF text[t] = "bye" THEN "farewell"
                             ELSE "question")
    /\ pc[t] = "greeting" => text[t] = "hello"
    /\ pc[t] = "farewell" => text[t] = "bye"
    /\ pc[t] \in {"question", "validate", "tools", "awaitTools", "thrown", "error"} =>
         text[t] \notin {"hello", "bye"}

\* C19 witness: with the intent model failing, a farewell turn and a question
\* turn have been answered
C19_Witness ==
  \E t, u \in Turns :
    /\ pc[t] = "sent" /\ text[t] = "bye" /\ resp[t].intent = "farewell"
    /\ pc[u] = "sent" /\ resp[u].intent = "question"

\* the judge answers with every failed call read as "CLEAR"
FailOpen(answers) ==
  [i \in DOMAIN answers |-> IF answers[i] = "throw" THEN "CLEAR" ELSE answers[i]]

\* C20: a failed judge call counts as unambiguous: for every vector of judge
\* answers validateToolCalls returns what it returns with the failed calls
\* answered CLEAR; with the judge always failing no turn is blocked, and a
\* turn is aborted in the question node only.
C20_JudgeFailsOpen ==
  \A t \in Turns :
    /\ ~st[t].needsApproval
    /\ pc[t] \in {"thrown", "error"} => Last(st[t].messages).kind # "ai"
    /\ pc[t] = "validate" =>
         LET toolCalls == Last(st[t].messages).tool_calls
         IN \A answers \in [DOMAIN toolCalls -> JudgeAnswers] :
              ValidationDelta(toolCalls, 1, answers) =
                ValidationDelta(toolCalls, 1, FailOpen(answers))

\* C20 witness: with the judge failing, a step proposing two weather calls,
\* one of them a single-word location, has reached the tools node
C20_Witness ==
  \E t \in Turns :
    /\ pc[t] = "tools"
    /\ LET toolCalls == Last(st[t].messages).tool_calls
       IN /\ Len(toolCalls) = 2
          /\ toolCalls[1].name = "get_weather" /\ toolCalls[1].arg = "Paris"
          /\ toolCalls[2].name = "get_weather"

\* C21: a posted message that is empty or only whitespace is classified
\* question, its turn goes through the question node and is answered with a
\* response (status 200), never refused and never failed.
C21_BlankMessageIsQuestion ==
  \A t \in Turns :
    (pc[t] # "new" /\ text[t] \in BlankTexts) =>
      /\ pc[t] # "rejected"
      /\ Classified(t) => st[t].userIntent = "question"
      /\ resp[t] # NoResp => resp[t].status = 200

\* turn t is the next turn of the conversation after the completed turn u,
\* neither of them overlapped by another request of the session
Follows(u, t) ==
  /\ u < t
  /\ pc[u] = "sent"
  /\ Classified(u)
  /\ pc[t] = "analyzeIntent"
  /\ conv[u] = conv[t]
  /\ ~overlap[u] /\ ~overlap[t]
  /\ \A w \in Turns : (u < w /\ w < t) => conv[w] # conv[t]

\* C22: the state a turn starts from equals what the previous turn of the
\* session ended with: the log, message by message, and the turn state
\* (userIntent, conversationCount, needsApproval, pendingToolCalls,
\* approvalMessage).
C22_PersistenceRoundTrip ==
  \A u, t \in Turns :
    Follows(u, t) =>
      /\ pre[t].messages = st[u].messages
      /\ st[t].messages = Append(st[u].messages, UserMessage(t))
      /\ st[t].conversationCount = st[u].conversationCount
      /\ st[t].needsApproval = st[u].needsApproval
      /\ st[t].pendingToolCalls = st[u].pendingToolCalls
      /\ st[t].approvalMessage = st[u].approvalMessage
      /\ st[t].userIntent = st[u].userIntent

\* C23: right after DELETE the map has no entry for the id and a read gives
\* an empty log and count 0; a read of an id without entry gives the same;
\* and the request that creates the entry of an id starts from an empty log
\* and count 0, whatever ran under that id before.
C23_DeleteRemovesState ==
  /\ [](\A s \in Sessions :
          /\ lastDelete = s =>
               /\ conversations[s] = NoObj
               /\ GetBody(s).messages = <<>>
               /\ GetBody(s).conversationCount = 0
          /\ (lastRead.sessionId = s /\ conversations[s] = NoObj) =>
               lastRead.messages = <<>> /\ lastRead.conversationCount = 0)
  /\ [][\A s \in Sessions :
          (conversations[s] = NoObj /\ conversations'[s] # NoObj) =>
            LET t == started'
            IN /\ started' = started + 1
               /\ sess'[t] = s
               /\ pre'[t] = EmptyConversation
               /\ st'[t].messages = <<HumanMessage(text'[t])>>
               /\ st'[t].conversationCount = 0
               /\ heap'[conversations'[s]] =
                    [messages |-> <<HumanMessage(text'[t])>>, conversationCount |-> 0]]_vars

\* C23 witness: a turn has completed under an id whose earlier conversation,
\* with a completed turn, was deleted
C23_Witness ==
  \E u, t \in Turns :
    /\ u < t
    /\ sess[u] = sess[t]
    /\ pc[u] = "sent" /\ pc[t] = "sent"
    /\ conv[u] # conv[t]
    /\ heap[conv[u]].conversationCount = 1
    /\ heap[conv[t]].conversationCount = 1

\* what the store holds for a session id
Stored(s) ==
  [entry |-> conversations[s],
   state |-> IF conversations[s] = NoObj THEN EmptyConversation
             ELSE heap[conversations[s]]]

\* C24: sessions are independent: two ids never share a Conversation object,
\* a step changes what is stored for an id only if it is a step of a request
\* of that id or a DELETE of that id, and a completed turn not overlapped by
\* a request of its own session has stored exactly its own result, whatever
\* other sessions did meanwhile.
C24_SessionsIndependent ==
  /\ [](\A s1, s2 \in Sessions :
          (s1 # s2 /\ conversations[s1] # NoObj) => conversations[s1] # conversations[s2])
  /\ [](\A t \in Turns :
          ( /\ pc[t] = "sent" /\ ~overlap[t] /\ StillStored(t)
            /\ \A u \in Turns : u > t => conv[u] # conv[t] ) =>
            /\ Stored(sess[t]).state =
                 [messages |-> st[t].messages,
                  conversationCount |-> st[t].conversationCount]
            /\ IsPrefix(Append(pre[t].messages, UserMessage(t)), st[t].messages))
  /\ [][\A s \in Sessions :
          Stored(s)' # Stored(s) =>
            \/ \E t \in Turns : pc'[t] # pc[t] /\ sess'[t] = s
            \/ lastDelete' = s]_vars

\* C24 witness: a turn of one session has completed while an earlier request
\* of another session is still in progress
C24_Witness ==
  \E t, u \in Turns :
    /\ t < u
    /\ InProgress(t)
    /\ pc[u] = "sent"
    /\ sess[t] # sess[u]
    /\ Stored(sess[u]).state.conversationCount = 1

\* C25: a turn starts at analyzeIntent with needsApproval false and nothing
\* pending, whatever the previous turn left; the calls callTools executes
\* are those of an assistant message of the same turn, none of which has a
\* tool-result message yet; and no call id ever has two tool-result messages
\* (a blocked call is never executed later).
C25_BlockedTurnNotResumed ==
  \A t \in Turns :
    /\ pc[t] = "analyzeIntent" =>
         /\ ~st[t].needsApproval
         /\ st[t].pendingToolCalls = <<>>
         /\ st[t].approvalMessage = <<>>
    /\ pc[t] \in {"tools", "awaitTools"} =>
         /\ Last(st[t].messages).kind = "ai"
         /\ Len(st[t].messages) > Len(pre[t].messages) + 1
         /\ \A i \in DOMAIN Last(st[t].messages).tool_calls :
              ResultsFor(st[t].messages, Last(st[t].messages).tool_calls[i].id) = {}
    /\ \A id \in 1..MaxToolCalls : Cardinality(ResultsFor(st[t].messages, id)) <= 1

\* C25 witness: callTools is about to run in a turn that follows a blocked
\* turn of the same conversation
C25_Witness ==
  \E t \in Turns :
    /\ pc[t] = "tools"
    /\ \E i \in DOMAIN pre[t].messages :
         /\ pre[t].messages[i].kind = "tool"
         /\ pre[t].messages[i].content[1] = "[Requesting clarification]"

\* C26: whenever analyzeIntent is about to run, the log of the turn is not
\* empty and ends with the user message of the turn.
C26_ClassifyOnUserMessage ==
  \A t \in Turns :
    pc[t] = "analyzeIntent" =>
      /\ st[t].messages # <<>>
      /\ Last(st[t].messages) = UserMessage(t)
      /\ Last(st[t].messages).kind = "human"

\* C26 witness: analyzeIntent is about to run in a conversation whose
\* previous turn failed
C26_Witness ==
  \E u, t \in Turns :
    /\ u < t
    /\ pc[u] = "error"
    /\ conv[u] = conv[t]
    /\ pc[t] = "analyzeIntent"

\* the tool calls of the assistant messages of a log, as positions
\* <<message index, index in the message>>, and the place of a position in
\* the traversal message by message, call by call
CallPositions(messages) ==
  {<<m, k>> \in (DOMAIN messages) \X (1..MaxCalls) :
     messages[m].kind = "ai" /\ k \in DOMAIN messages[m].tool_calls}
PlaceOf(messages, p) ==
  Cardinality({q \in CallPositions(messages) :
                 q[1] < p[1] \/ (q[1] = p[1] /\ q[2] <= p[2])})
FirstPlace(messages, name) ==
  CHOOSE n \in 1..Cardinality(CallPositions(messages)) :
    /\ \E p \in CallPositions(messages) :
         PlaceOf(messages, p) = n /\ messages[p[1]].tool_calls[p[2]].name = name
    /\ \A p \in CallPositions(messages) :
         messages[p[1]].tool_calls[p[2]].name = name => PlaceOf(messages, p) >= n

\* C27: in the body of a turn that was not blocked, toolsUsed has no name
\* twice, holds exactly the names of the tool calls of the assistant
\* messages, in the order of their first occurrence; toolCallDetails has one
\* {name, args} entry per tool call, in traversal order.
C27_ToolsUsedDeduplicated ==
  \A t \in Turns :
    (pc[t] = "sent" /\ ~resp[t].needsApproval) =>
      LET messages == st[t].messages
          used == resp[t].toolsUsed
          details == resp[t].toolCallDetails
      IN /\ \A i, j \in DOMAIN used : used[i] = used[j] => i = j
         /\ {used[i] : i \in DOMAIN used} =
              {messages[p[1]].tool_calls[p[2]].name : p \in CallPositions(messages)}
         /\ \A i, j \in DOMAIN used :
              i < j => FirstPlace(messages, used[i]) < FirstPlace(messages, used[j])
         /\ Len(details) = Cardinality(CallPositions(messages))
         /\ \A p \in CallPositions(messages) :
              details[PlaceOf(messages, p)] =
                [name |-> messages[p[1]].tool_calls[p[2]].name,
                 args |-> messages[p[1]].tool_calls[p[2]].arg]

\* C27 witness: the body of a turn with two calls of one tool was sent
C27_Witness ==
  \E t \in Turns :
    /\ pc[t] = "sent"
    /\ ~resp[t].needsApproval
    /\ Len(resp[t].toolCallDetails) = 2
    /\ Len(resp[t].toolsUsed) = 1

\* a weather call whose location has neither a comma nor a space
SingleWordWeather(call) ==
  call.name = "get_weather" /\ call.arg \notin {"Paris, France"}

\* C28: when no proposed call is a weather call with a single-word location,
\* validateToolCalls returns needsApproval false and nothing else whatever
\* the judge would say (the judge is not consulted), and the turn goes on to
\* the tools node with its log unchanged.
C28_OnlySingleWordWeatherExamined ==
  [][\A t \in Turns :
       LET toolCalls == Last(st[t].messages).tool_calls
       IN (Leaves(t, "validate") /\ \A i \in DOMAIN toolCalls : ~SingleWordWeather(toolCalls[i])) =>
            /\ \A answers \in [DOMAIN toolCalls -> JudgeAnswers] :
                 ValidationDelta(toolCalls, 1, answers) = [needsApproval |-> FALSE]
            /\ pc'[t] = "tools"
            /\ ~st'[t].needsApproval
            /\ st'[t].pendingToolCalls = <<>>
            /\ st'[t].messages = st[t].messages]_vars

\* C28 witness: a step proposing a weather call with a qualified location
\* and a calculator call has passed validate
C28_Witness ==
  \E t \in Turns :
    /\ pc[t] = "tools"
    /\ Len(Last(st[t].messages).tool_calls) = 2
    /\ Last(st[t].messages).tool_calls[1].arg = "Paris, France"
    /\ Last(st[t].messages).tool_calls[2].name = "calculator"

\* a call of the step whose tool was not found or whose invocation threw
Failed(t, i) == pend[t][i] \in {"notfound", "throw"}

C30_ApprovalFieldsCleared ==
  \A t \in Turns :
    AfterTools(t) =>
      /\ ~st[t].needsApproval
      /\ st[t].pendingToolCalls = <<>>
      /\ st[t].approvalMessage = <<>>

\* C30 witness: callTools has delivered in an invocation that started from a
\* checkpoint holding the approval fields of a blocked invocation
C30_Witness ==
  \E t \in Turns :
    /\ AfterTools(t)
    /\ Checkpoint(t).needsApproval
    /\ Checkpoint(t).pendingToolCalls # <<>>
    /\ Checkpoint(t).approvalMessage # <<>>

\* the approval channels of a graph state
ApprovalFields(s) == <<s.needsApproval, s.pendingToolCalls, s.approvalMessage>>

\* C31: a node changes only the channels of its delta.  analyzeIntent changes
\* userIntent alone; the greeting, farewell and question nodes leave
\* userIntent and the approval channels as they were; validate and tools
\* leave userIntent and conversationCount as they were; and every step keeps
\* the log it found as a prefix of the log it leaves.
C31_NodesChangeOnlyTheirDelta ==
  [][\A t \in Turns :
       /\ Leaves(t, "analyzeIntent") =>
            /\ st'[t].messages = st[t].messages
            /\ st'[t].conversationCount = st[t].conversationCount
            /\ ApprovalFields(st'[t]) = ApprovalFields(st[t])
       /\ (Leaves(t, "greeting") \/ Leaves(t, "farewell") \/ Leaves(t, "question")) =>
            /\ st'[t].userIntent = st[t].userIntent
            /\ ApprovalFields(st'[t]) = ApprovalFields(st[t])
       /\ (Leaves(t, "validate") \/ Leaves(t, "tools") \/ Leaves(t, "awaitTools")) =>
            /\ st'[t].userIntent = st[t].userIntent
            /\ st'[t].conversationCount = st[t].conversationCount
       /\ InProgress(t) => IsPrefix(st[t].messages, st'[t].messages)]_vars

\* C31 witness: a later turn of a conversation has gone through
\* analyzeIntent, the question node, validate and the tools node
C31_Witness ==
  \E t \in Turns :
    /\ pc[t] = "sent"
    /\ rounds[t] = 1
    /\ st[t].userIntent = "question"
    /\ pre[t].messages # <<>>
    /\ st[t].conversationCount = pre[t].conversationCount + 2

\* C32: when every model and tool call returns and the question model stops
\* proposing tool calls, every request that has entered the graph at
\* analyzeIntent is eventually answered with status 200.
C32_TurnEventuallyAnswered ==
  \A t \in Turns :
    (pc[t] = "analyzeIntent") ~> (pc[t] = "sent" /\ resp[t].status = 200)

\* C32 witness: a request has been answered after two passes through the
\* tools node
C32_Witness ==
  \E t \in Turns : pc[t] = "sent" /\ resp[t].status = 200 /\ rounds[t] = 2

\* validateToolCalls blocked in turn t: the log ends with the clarification
\* message of a call that an assistant message of the same turn proposed
BlockedInTurn(t) ==
  /\ Responses(t) # <<>>
  /\ Last(Responses(t)).kind = "tool"
  /\ Last(Responses(t)).content[1] = "[Requesting clarification]"
  /\ \E k \in DOMAIN Responses(t) :
       /\ Responses(t)[k].kind = "ai"
       /\ \E i \in DOMAIN Responses(t)[k].tool_calls :
            Responses(t)[k].tool_calls[i].id = Last(Responses(t)).tool_call_id

\* C33: needsApproval is raised only by the step that leaves validate; a turn
\* that has ended holds it exactly when validateToolCalls blocked in that
\* turn; and a turn whose log ends with an assistant message (greeting,
\* farewell or an answer without tool calls) is answered with needsApproval
\* false and the content of that message, whatever the turn before it left.
C33_ApprovalOnlyWhenBlockedThisTurn ==
  /\ [](\A t \in Turns :
         /\ pc[t] \in {"END", "sent"} => (st[t].needsApproval <=> BlockedInTurn(t))
         /\ (pc[t] = "sent" /\ Last(st[t].messages).kind = "ai") =>
              /\ Last(st[t].messages).tool_calls = <<>>
              /\ ~resp[t].needsApproval
              /\ resp[t].response = Last(st[t].messages).content
         /\ (pc[t] = "sent" /\ resp[t].needsApproval) => BlockedInTurn(t))
  /\ [][\A t \in Turns :
         /\ (st'[t].needsApproval /\ ~st[t].needsApproval) => Leaves(t, "validate")
         /\ (Leaves(t, "greeting") \/ Leaves(t, "farewell") \/ Leaves(t, "question")) =>
              ~st'[t].needsApproval]_vars

\* C33 witness: a turn that ran neither validate nor tools was answered
\* after a blocked turn of the same conversation
C33_Witness ==
  \E t \in Turns :
    /\ pc[t] = "sent"
    /\ ~resp[t].needsApproval
    /\ rounds[t] = 0
    /\ Len(st[t].messages) = Len(pre[t].messages) + 2
    /\ pre[t].messages # <<>>
    /\ Last(pre[t].messages).kind = "tool"

\* the assistant messages before place k of a log that propose the call
\* answered at place k, every message in between being a tool-result message
Proposers(messages, k) ==
  {j \in 1..(k - 1) :
     /\ messages[j].kind = "ai"
     /\ \E i \in DOMAIN messages[j].tool_calls :
          messages[j].tool_calls[i].id = messages[k].tool_call_id
     /\ \A m \in (j + 1)..(k - 1) : messages[m].kind = "tool"}
WellFormed(messages) ==
  \A k \in DOMAIN messages :
    messages[k].kind = "tool" =>
      /\ Proposers(messages, k) # {}
      /\ ResultsFor(messages, messages[k].tool_call_id) = {k}

\* C34: the log of every turn and the log of every stored conversation are
\* well formed at every moment: each tool-result message follows, with only
\* tool-result messages in between, an assistant message that carries a
\* tool call with its id, and no id has two tool-result messages.
C34_LogWellFormed ==
  /\ \A t \in Turns : WellFormed(st[t].messages)
  /\ \A o \in Objs : WellFormed(heap[o].messages)

\* C34 witness: a stored log holds the clarification message of a blocked
\* turn and, after it, the result of a call that a later turn executed
C34_Witness ==
  \E o \in Objs :
    \E k, m \in DOMAIN heap[o].messages :
      /\ k < m
      /\ heap[o].messages[k].kind = "tool"
      /\ heap[o].messages[k].content[1] = "[Requesting clarification]"
      /\ heap[o].messages[m].kind = "tool"
      /\ heap[o].messages[m].content[1] # "[Requesting clarification]"

\* some message of a log has the given content
HasContent(messages, content) ==
  \E k \in DOMAIN messages : messages[k].content = content

\* C35: a turn that ends without being blocked leaves a log whose last
\* message is an assistant message without tool calls, and the response
\* sent is the content of that message; a turn that ends blocked leaves a
\* log whose last message is a tool-result message, the response sent is the
\* approvalMessage, and no message of the turn's log or of a stored log has
\* the approvalMessage as its content.
C35_LastMessageAtEnd ==
  \A t \in Turns :
    pc[t] \in {"END", "sent"} =>
      IF st[t].needsApproval
        THEN /\ Last(st[t].messages).kind = "tool"
             /\ ~HasContent(st[t].messages, st[t].approvalMessage)
             /\ \A o \in Objs : ~HasContent(heap[o].messages, st[t].approvalMessage)
             /\ pc[t] = "sent" => resp[t].response = st[t].approvalMessage
        ELSE /\ Last(st[t].messages).kind = "ai"
             /\ Last(st[t].messages).tool_calls = <<>>
             /\ pc[t] = "sent" =>
                  /\ resp[t].response = Last(st[t].messages).content
                  /\ resp[t].response \in {GreetingText, FarewellText, <<"answer">>}

\* C35 witness: a blocked turn and a turn that executed a tool call have
\* both been answered
C35_Witness ==
  \E t, u \in Turns :
    /\ pc[t] = "sent" /\ st[t].needsApproval
    /\ resp[t].response = st[t].approvalMessage
    /\ pc[u] = "sent" /\ ~st[u].needsApproval /\ rounds[u] = 1
    /\ resp[u].response = <<"answer">>

\* C36: the tool-result messages of a step are in the order of the tool
\* calls of the proposing message, the i-th carrying the id and the outcome
\* of the i-th call, in whatever order the invocations settled.
C36_ResultsInCallOrder ==
  \A t \in Turns :
    AfterTools(t) =>
      /\ Len(done[t]) = Len(StepCalls(t))
      /\ Len(StepResults(t)) = Len(StepCalls(t))
      /\ \A i \in DOMAIN StepCalls(t) :
           /\ StepResults(t)[i].tool_call_id = StepCalls(t)[i].id
           /\ StepResults(t)[i].content = ResultContent(StepCalls(t)[i], pend[t][i])

\* C36 witness: callTools has delivered a step of two different tools whose
\* second call settled before its first
C36_Witness ==
  \E t \in Turns :
    /\ AfterTools(t)
    /\ done[t] = <<2, 1>>
    /\ StepCalls(t)[1].name # StepCalls(t)[2].name

\* C37: while a session keeps its entry the conversationCount stored for it
\* never decreases, and the step that completes a turn leaves the stored
\* count greater than the count the turn started from, in every
\* interleaving of the requests of the session.
C37_StoredCountMonotonic ==
  [][/\ \A s \in Sessions :
          (conversations[s] # NoObj /\ conversations'[s] = conversations[s]) =>
            heap'[conversations[s]].conversationCount >=
              heap[conversations[s]].conversationCount
     /\ \A t \in Turns :
          (pc[t] = "END" /\ pc'[t] = "sent") =>
            heap'[conv[t]].conversationCount > pre[t].conversationCount]_vars

\* C38: a request whose session was deleted while it was in progress never
\* puts the session back: its Conversation object is stored under no id, the
\* step that completes it changes what is stored for no id, a read of an id
\* without entry returns the empty log and count 0, and a request for an id
\* without entry starts from the empty conversation.
C38_DeletedSessionNotResurrected ==
  /\ [](\A t \in orphaned : \A s \in Sessions : conversations[s] # conv[t])
  /\ [](\A s \in Sessions :
          (lastRead.sessionId = s /\ conversations[s] = NoObj) =>
            lastRead.messages = <<>> /\ lastRead.conversationCount = 0)
  /\ [][/\ \A t \in orphaned :
            (pc[t] \in {"END", "thrown"} /\ pc'[t] \in {"sent", "error"}) =>
              /\ conversations' = conversations
              /\ \A s \in Sessions : Stored(s)' = Stored(s)
       /\ \A u \in Turns :
            (pc[u] = "new" /\ pc'[u] = "analyzeIntent"
               /\ conversations[sess'[u]] = NoObj) =>
              /\ pre'[u] = EmptyConversation
              /\ st'[u].messages = <<HumanMessage(text'[u])>>
              /\ st'[u].conversationCount = 0
              /\ \A t \in Turns : t # u => conv'[u] # conv[t]]_vars

\* C38 witness: a request completed after its session was deleted, its
\* result is in its Conversation object, and a read of the id that followed
\* found no entry
C38_Witness ==
  \E t \in orphaned :
    /\ pc[t] = "sent"
    /\ heap[conv[t]].messages = st[t].messages
    /\ conversations[sess[t]] = NoObj
    /\ lastRead.sessionId = sess[t]

\* turn u is a later turn of the conversation of turn t, both answered and
\* neither overlapped by another request of the session
LaterTurn(t, u) ==
  /\ t < u
  /\ pc[t] = "sent" /\ pc[u] = "sent"
  /\ conv[t] = conv[u]
  /\ ~overlap[t] /\ ~overlap[u]
\* the names of the tool calls of the assistant messages of a log
NamesIn(messages) ==
  {messages[p[1]].tool_calls[p[2]].name : p \in CallPositions(messages)}

====
